---- MODULE Spec2Model ----
(***************************************************************************)
(* Model of src/main.js, the Popposite referral bot: the ledger functions  *)
(* (registerUserIfNotExists, confirmPurchase, addPendingPurchase,          *)
(* createWithdrawRequestDynamic, createWithdrawRequest,                    *)
(* approveWithdrawRequest, rejectWithdrawRequest), the /withdraw command   *)
(* and the text handler that drives the withdrawal session.                *)
(*                                                                         *)
(* db.data is an object graph.  lowdb's db.read() parses db.json again and *)
(* assigns the freshly parsed graph to db.data, so an object obtained from *)
(* db.data before a db.read() is no longer part of db.data after it.  The  *)
(* model keeps the parsed graph (mem) and the file (persisted) apart and   *)
(* treats a user object held across a db.read() as a detached copy.        *)
(*                                                                         *)
(* Fields that are written once and never read by the ledger logic (name,  *)
(* createdAt, packageConfirmedAt, price) are left out of the records.      *)
(***************************************************************************)
EXTENDS Integers, Sequences, FiniteSets, TLC

\* ---------------------------------------------------------------- bounds
MaxBalance == 500
MaxWithdraws == 1
MaxPending == 2
MaxLedgerPending == 1

\* ------------------------------------------------------ program constants
MIN_WITHDRAW == 100

Null == "null"

PACKAGES ==
    [Basic |-> [price |-> 1500, commission |-> 200],
     Premium |-> [price |-> 3000, commission |-> 400],
     VIP |-> [price |-> 3500, commission |-> 500]]

PackageNames == DOMAIN PACKAGES

\* ------------------------------------------------------------ input sets
\* the Telegram identities (ctx.from.id) of the two people who use the bot
UserIds == {1, 2}
\* outcomes of nanoid(6); the argument of /start is any of them too
Codes == {1, 2}
\* "referralCode || null": no code
NoCode == 0
\* packageType arguments: the three packages and one unknown name
PackageArgs == PackageNames \cup {"Gold"}
Notes == {"paid"}
Methods == {"Telebirr", "CBE", "Transfer"}
\* amounts a caller may hand to createWithdrawRequestDynamic
AmountArgs == {-100, 0, 150, 200}

\* ----------------------------------------------------------- text of a message
\* A message text is a sequence of one-character strings.
Texts ==
    { <<"c","a","n","c","e","l">>,
      <<" ","C","a","n","c","e","l"," ">>,
      <<"2","0","0">>,
      <<"1","5","0">>,
      <<"6","0","0">>,
      <<"-","1","0","0">>,
      <<"2","0","0","x">>,
      <<"a","b","c">>,
      <<"1">>,
      <<"m","y"," ","C","B","E">>,
      <<"3">> }

IsSpace(c) == c = " "

IsDigit(c) == c \in {"0","1","2","3","4","5","6","7","8","9"}

DigitVal(c) ==
    CASE c = "0" -> 0 [] c = "1" -> 1 [] c = "2" -> 2 [] c = "3" -> 3
      [] c = "4" -> 4 [] c = "5" -> 5 [] c = "6" -> 6 [] c = "7" -> 7
      [] c = "8" -> 8 [] c = "9" -> 9

LowerChar(c) ==
    CASE c = "C" -> "c" [] c = "B" -> "b" [] c = "E" -> "e" [] c = "T" -> "t"
      [] OTHER -> c

\* String.prototype.toLowerCase
ToLowerCase(s) == [i \in 1..Len(s) |-> LowerChar(s[i])]

RECURSIVE TrimStart(_)
TrimStart(s) ==
    IF s # <<>> /\ IsSpace(Head(s)) THEN TrimStart(Tail(s)) ELSE s

RECURSIVE TrimEnd(_)
TrimEnd(s) ==
    IF s # <<>> /\ IsSpace(s[Len(s)]) THEN TrimEnd(SubSeq(s, 1, Len(s) - 1)) ELSE s

\* String.prototype.trim
Trim(s) == TrimEnd(TrimStart(s))

\* String.prototype.includes
Includes(s, sub) ==
    \E i \in 1..(Len(s) - Len(sub) + 1) : SubSeq(s, i, i + Len(sub) - 1) = sub

RECURSIVE DigitsValue(_, _)
\* value of the longest digit prefix of s, continuing from acc
DigitsValue(s, acc) ==
    IF s # <<>> /\ IsDigit(Head(s))
    THEN DigitsValue(Tail(s), 10 * acc + DigitVal(Head(s)))
    ELSE acc

\* parseInt(text, 10): leading white space skipped, an optional sign, then the
\* longest digit prefix; NaN when there is no digit.
ParseInt(s) ==
    LET t == TrimStart(s)
        neg == t # <<>> /\ Head(t) = "-"
        u == IF t # <<>> /\ Head(t) \in {"-", "+"} THEN Tail(t) ELSE t
    IN  IF u = <<>> \/ ~IsDigit(Head(u))
        THEN [nan |-> TRUE, val |-> 0]
        ELSE [nan |-> FALSE,
              val |-> IF neg THEN 0 - DigitsValue(u, 0) ELSE DigitsValue(u, 0)]

Str(w) ==
    CASE w = "cancel" -> <<"c","a","n","c","e","l">>
      [] w = "telebirr" -> <<"t","e","l","e","b","i","r","r">>
      [] w = "cbe" -> <<"c","b","e">>
      [] w = "transfer" -> <<"t","r","a","n","s","f","e","r">>
      [] w = "1" -> <<"1">>
      [] w = "2" -> <<"2">>
      [] w = "3" -> <<"3">>

\* lines 419-427: the payment method a (trimmed, lower-cased) text names
MethodOf(text) ==
    IF Includes(text, Str("telebirr")) \/ text = Str("1") THEN "Telebirr"
    ELSE IF Includes(text, Str("cbe")) \/ text = Str("2") THEN "CBE"
    ELSE IF Includes(text, Str("transfer")) \/ text = Str("3") THEN "Transfer"
    ELSE Null

\* ------------------------------------------------------------------ state
VARIABLES
    persisted,      \* the content of db.json
    mem,            \* db.data, the graph parsed by the last db.read()
    userSessions,   \* userSessions[id]: the withdraw session of a user
    now,            \* the clock behind new Date(): the number of times it was
                    \* read; it has moved on whenever it is read again
    last,           \* the last operation and what it returned
    inflight,       \* inflight[id]: the db.read() of a handler of user id
                    \* that has fetched the file and not yet resolved
    suspended       \* the handlers that wait at an await of theirs:
                    \* suspended.text[h], a run of the text handler in the
                    \* method step, and suspended.confirm, a confirmPurchase
                    \* that waits for the message to the referrer

vars == <<persisted, mem, userSessions, now, last, inflight, suspended>>

\* line 22-29: the default data
EmptyDb == [users |-> <<>>, pendingPurchases |-> <<>>, withdraws |-> <<>>]

NoUser ==
    [id |-> 0, referralCode |-> NoCode, referredBy |-> NoCode, balance |-> 0,
     package |-> Null]

NoSession == [step |-> "idle", amount |-> 0]

\* no db.read() under way
NoRead == [reading |-> FALSE, content |-> EmptyDb]

\* the runs of the text handler that may be under way at once
Slots == {1, 2}

\* no run of the text handler in slot h.  A run holds what lines 388-432
\* put in its locals: user (the object line 397 found), the amount of the
\* session and the method; obj names the object user refers to, and
\* attached says that this object is part of the graph db.data refers to.
NoRun ==
    [pc |-> "idle", user |-> NoUser, obj |-> 0, amount |-> 0, method |-> Null,
     attached |-> FALSE]

\* no confirmPurchase under way
NoConfirm == [pc |-> "idle", userId |-> 0, packageType |-> Null, user |-> NoUser,
              ref |-> NoUser]

NoneSuspended == [text |-> [h \in Slots |-> NoRun], confirm |-> NoConfirm]

\* db.read() makes db.data a new graph: the objects that suspended runs
\* hold are no longer part of it
Detach(s) ==
    [s EXCEPT !.text = [h \in Slots |-> [s.text[h] EXCEPT !.attached = FALSE]]]

\* op and arg: the operation and its referral code, amount or request id;
\* ok, error: the result it returned or the reply it sent; user: the user
\* object it returned or held
Result(op, arg, ok, error, user) ==
    [op |-> op, arg |-> arg, ok |-> ok, error |-> error, user |-> user]

\* ------------------------------------------------------------ record store
\* db.read(): db.data becomes the graph parsed from the file.  Every value
\* the records hold (integers, strings, null) survives JSON unchanged.
DbRead(file) == file

\* saveDB(): called on lines 88, 99, 133, 170, 188, 201, 226, 251, 667 and
\* defined nowhere in main.js; modelled as the spec's persist(snapshot),
\* which writes db.data to the file.
SaveDB(data) == data

\* ---------------------------------------------------------------- helpers
RECURSIVE FirstIndex(_, _, _)
\* Array.prototype.find: index of the first element of seq from i on whose
\* field holds val under test, 0 when there is none
FirstIndex(hits, seq, i) ==
    IF i > Len(seq) THEN 0
    ELSE IF i \in hits THEN i
    ELSE FirstIndex(hits, seq, i + 1)

\* line 48-50
findUserById(data, id) ==
    FirstIndex({i \in 1..Len(data.users) : data.users[i].id = id}, data.users, 1)

\* line 52-54
findUserByReferral(data, code) ==
    FirstIndex({i \in 1..Len(data.users) : data.users[i].referralCode = code},
               data.users, 1)

\* line 195, 215: db.data.withdraws.find(x => x.id === withdrawId)
findWithdraw(data, withdrawId) ==
    FirstIndex({i \in 1..Len(data.withdraws) : data.withdraws[i].id = withdrawId},
               data.withdraws, 1)

UserAt(data, i) == IF i = 0 THEN NoUser ELSE data.users[i]

\* nanoid(8) for a record of a collection: an id no record of it carries
\* (the least one; ids are opaque)
NanoId8(seq) ==
    LET used == {seq[i].id : i \in 1..Len(seq)}
    IN  CHOOSE n \in 1..(Len(seq) + 1) :
            n \notin used /\ \A m \in 1..(n - 1) : m \in used

\* nanoid(6) for a new user: the codes no user carries yet
NanoId6(data) ==
    Codes \ {data.users[i].referralCode : i \in 1..Len(data.users)}

\* ---------------------------------------------------------- ledger engine
\* Each ledger function is an operator from the file, its arguments and the
\* time to an outcome: data (db.data when it returns), file (db.json when it
\* returns), ok/error (the returned result) and user (the user object the
\* function returns or was handed).
Outcome(data, file, ok, error, user) ==
    [data |-> data, file |-> file, ok |-> ok, error |-> error, user |-> user]

\* sendMessage (lines 121, 155, 204, 229, 254, 440): delivered, or an error
\* thrown
SendMessage(delivered) == IF delivered THEN "sent" ELSE "thrown"

\* TryCatch that lets the error of a failed delivery escape
TryCatch_Rethrow(sent) == IF sent = "thrown" THEN "thrown" ELSE "done"

\* try { sendMessage } catch (e) { } (lines 120-127, 154-161, 203-208,
\* 228-233, 253-258, 439-445): the error is swallowed
TryCatch(sent) == CASE sent = "sent" -> "done" [] sent = "thrown" -> "done"

\* what a ledger function leaves when an error escapes it
Thrown(data, file) == Outcome(data, file, FALSE, "thrown", NoUser)

\* CheckAmount without line 72-73
CheckAmount_NoBalanceCheck(amount, balance) ==
    IF amount = 0 \/ amount <= 0 THEN "Invalid amount"
    ELSE IF amount % 100 # 0 THEN "Amount must end with 00"
    ELSE "ok"

\* CheckAmount with line 74-75 ahead of line 72-73
CheckAmount_FormatFirst(amount, balance) ==
    IF amount = 0 \/ amount <= 0 THEN "Invalid amount"
    ELSE IF amount % 100 # 0 THEN "Amount must end with 00"
    ELSE IF amount > balance THEN "Insufficient balance"
    ELSE "ok"

\* line 71-75: the checks of createWithdrawRequestDynamic, in their order
CheckAmount(amount, balance) ==
    IF amount = 0 \/ amount <= 0 THEN "Invalid amount"
    ELSE IF amount > balance THEN "Insufficient balance"
    ELSE IF amount % 100 # 0 THEN "Amount must end with 00"
    ELSE "ok"

\* line 77-85
NewRequest(data, userId, amount, paymentMethod, t) ==
    [id |-> NanoId8(data.withdraws), userId |-> userId, amount |-> amount,
     paymentMethod |-> paymentMethod, status |-> "pending", note |-> Null,
     updatedAt |-> t]

\* line 69-90.  user is the object the caller found in db.data before the
\* call; db.read() on line 70 replaces db.data, so line 87 writes to the
\* caller's object and not to the graph that line 88 saves.
createWithdrawRequestDynamic(file, user, amount, paymentMethod, t) ==
    LET data == DbRead(file)
        error == CheckAmount(amount, user.balance)
        request == NewRequest(data, user.id, amount, paymentMethod, t)
        data1 == [data EXCEPT !.withdraws = Append(@, request)]
        user1 == [user EXCEPT !.balance = @ - amount]
    IN  IF error # "ok"
        THEN Outcome(data, file, FALSE, error, user)
        ELSE Outcome(data1, SaveDB(data1), TRUE, "", user1)

\* line 175-190, the full-balance variant; the same db.read() on line 176
\* detaches user before line 187 resets its balance
createWithdrawRequest(file, user, t) ==
    LET data == DbRead(file)
        request == NewRequest(data, user.id, user.balance, Null, t)
        data1 == [data EXCEPT !.withdraws = Append(@, request)]
        user1 == [user EXCEPT !.balance = 0]
    IN  Outcome(data1, SaveDB(data1), TRUE, "", user1)

\* line 111: referredBy: referralCode || null
ReferredBy(data, referralCode) == referralCode

\* registerUserIfNotExists that records the code of a repeated /start
registerUserIfNotExists_Update(file, id, referralCode, code6, delivered) ==
    LET data == DbRead(file)
        i == findUserById(data, id)
        user == [id |-> id, referralCode |-> code6,
                 referredBy |-> ReferredBy(data, referralCode),
                 balance |-> 0, package |-> Null]
        data1 == [data EXCEPT !.users = Append(@, user)]
        data2 == [data EXCEPT !.users[i].referredBy =
                                  IF referralCode # NoCode THEN referralCode ELSE @]
    IN  IF i # 0
        THEN Outcome(data2, SaveDB(data2), TRUE, "", data2.users[i])
        ELSE Outcome(data1, SaveDB(data1), TRUE, "", user)

\* line 103-136; code6 is the outcome of nanoid(6), delivered that of the
\* message to the referrer (line 118-131, sent when the code resolves)
registerUserIfNotExists(file, id, referralCode, code6, delivered) ==
    LET data == DbRead(file)
        i == findUserById(data, id)
        user == [id |-> id, referralCode |-> code6,
                 referredBy |-> ReferredBy(data, referralCode),
                 balance |-> 0, package |-> Null]
        data1 == [data EXCEPT !.users = Append(@, user)]
        notifies == referralCode # NoCode
                        /\ findUserByReferral(data1, referralCode) # 0
    IN  IF i # 0
        THEN Outcome(data, file, TRUE, "", data.users[i])
        ELSE IF notifies /\ TryCatch(SendMessage(delivered)) = "thrown"
        THEN Thrown(data1, file)
        ELSE Outcome(data1, SaveDB(data1), TRUE, "", user)

\* line 36-40, 152
Commission(packageType) == PACKAGES[packageType].commission

\* line 149-151: the referrer to credit, 0 when there is none
Referrer(data, user) ==
    IF user.referredBy # NoCode
    THEN findUserByReferral(data, user.referredBy)
    ELSE 0

\* Credit assigning the commission instead of adding it
Credit_Overwrite(balance, packageType) == Commission(packageType)

\* line 152
Credit(balance, packageType) == balance + Commission(packageType)

RECURSIVE RemovePending_User(_, _, _)
\* RemovePending that drops every entry of the user, whatever its package
RemovePending_User(seq, userId, packageType) ==
    IF seq = <<>> THEN <<>>
    ELSE IF Head(seq).userId = userId
         THEN RemovePending_User(Tail(seq), userId, packageType)
         ELSE <<Head(seq)>> \o RemovePending_User(Tail(seq), userId, packageType)

RECURSIVE RemovePending(_, _, _)
\* line 166-168: filter(p => !(p.userId === userId && p.package === packageType))
RemovePending(seq, userId, packageType) ==
    IF seq = <<>> THEN <<>>
    ELSE IF Head(seq).userId = userId /\ Head(seq).package = packageType
         THEN RemovePending(Tail(seq), userId, packageType)
         ELSE <<Head(seq)>> \o RemovePending(Tail(seq), userId, packageType)

\* line 139-172; delivered: the message to the referrer (line 154-161)
confirmPurchase(file, userId, packageType, delivered) ==
    LET data == DbRead(file)
        i == findUserById(data, userId)
        data1 == [data EXCEPT !.users[i].package = packageType]
        r == Referrer(data1, data1.users[i])
        data2 == IF r = 0 THEN data1
                 ELSE [data1 EXCEPT !.users[r].balance = Credit(@, packageType)]
        data3 == [data2 EXCEPT !.pendingPurchases =
                                   RemovePending(@, userId, packageType)]
    IN  IF i = 0 THEN Outcome(data, file, FALSE, "User not found", NoUser)
        ELSE IF packageType \notin PackageNames
        THEN Outcome(data, file, FALSE, "Invalid package", NoUser)
        ELSE IF r # 0 /\ TryCatch(SendMessage(delivered)) = "thrown"
        THEN Thrown(data2, file)
        ELSE Outcome(data3, SaveDB(data3), TRUE, "", data3.users[i])

\* line 238-260; delivered: the message to the user (line 253-258)
addPendingPurchase(file, userId, packageType, note, delivered) ==
    LET data == DbRead(file)
        i == findUserById(data, userId)
        entry == [id |-> NanoId8(data.pendingPurchases), userId |-> userId,
                  package |-> packageType, note |-> note]
        data1 == [data EXCEPT !.pendingPurchases = Append(@, entry)]
    IN  IF i = 0 THEN Outcome(data, file, FALSE, "User not found", NoUser)
        ELSE IF packageType \notin PackageNames
        THEN Outcome(data, file, FALSE, "Invalid package", NoUser)
        ELSE IF TryCatch(SendMessage(delivered)) = "thrown"
        THEN Thrown(data1, SaveDB(data1))
        ELSE Outcome(data1, SaveDB(data1), TRUE, "", NoUser)

\* IsPending without the check of the status
IsPending_Always(w) == w.status \in {"pending", "approved", "rejected"}

\* line 197, 217: only a pending request is resolved
IsPending(w) == w.status = "pending"

\* line 193-210; delivered: the message to the user (line 203-208)
approveWithdrawRequest(file, withdrawId, note, t, delivered) ==
    LET data == DbRead(file)
        k == findWithdraw(data, withdrawId)
        data1 == [data EXCEPT !.withdraws[k].status = "approved",
                              !.withdraws[k].updatedAt = t,
                              !.withdraws[k].note = note]
    IN  IF k = 0
        THEN Outcome(data, file, FALSE, "Withdraw request not found", NoUser)
        ELSE IF ~IsPending(data.withdraws[k])
        THEN Outcome(data, file, FALSE, "Not pending", NoUser)
        ELSE IF TryCatch(SendMessage(delivered)) = "thrown"
        THEN Thrown(data1, SaveDB(data1))
        ELSE Outcome(data1, SaveDB(data1), TRUE, "", NoUser)

\* Refund that leaves the balance as it is
Refund_Nothing(balance, amount) == balance

\* line 224: user.balance = (user.balance || 0) + w.amount
Refund(balance, amount) == balance + amount

\* line 213-235; delivered: the message to the user (line 228-233)
rejectWithdrawRequest(file, withdrawId, reason, t, delivered) ==
    LET data == DbRead(file)
        k == findWithdraw(data, withdrawId)
        data1 == [data EXCEPT !.withdraws[k].status = "rejected",
                              !.withdraws[k].updatedAt = t,
                              !.withdraws[k].note = reason]
        i == findUserById(data1, data1.withdraws[k].userId)
        data2 == IF i = 0 THEN data1
                 ELSE [data1 EXCEPT !.users[i].balance =
                                        Refund(@, data1.withdraws[k].amount)]
    IN  IF k = 0
        THEN Outcome(data, file, FALSE, "Withdraw request not found", NoUser)
        ELSE IF ~IsPending(data.withdraws[k])
        THEN Outcome(data, file, FALSE, "Not pending", NoUser)
        ELSE IF TryCatch(SendMessage(delivered)) = "thrown"
        THEN Thrown(data2, SaveDB(data2))
        ELSE Outcome(data2, SaveDB(data2), TRUE, "", UserAt(data2, i))

\* ---------------------------------------------------------------- actions
Init ==
    /\ persisted = EmptyDb
    /\ mem = DbRead(EmptyDb)
    /\ userSessions = [id \in UserIds |-> NoSession]
    /\ now = 0
    /\ last = Result("init", 0, TRUE, "", NoUser)
    /\ inflight = [id \in UserIds |-> NoRead]
    /\ suspended = NoneSuspended

\* what a ledger function leaves behind
Commit(op, arg, o) ==
    /\ persisted' = o.file
    /\ mem' = o.data
    /\ last' = Result(op, arg, o.ok, o.error, o.user)
    /\ suspended' = Detach(suspended)
    /\ UNCHANGED inflight

\* new Date() was read when a withdrawal was written (lines 83-84, 182-183,
\* 199, 219)
Stamped(o) == now' = IF o.ok THEN now + 1 ELSE now

\* room left under the bounds of the model
RoomForWithdraw == Len(persisted.withdraws) < MaxWithdraws

RoomForPending == Len(persisted.pendingPurchases) < MaxPending

WithinBalance(o) ==
    \A i \in 1..Len(o.data.users) : o.data.users[i].balance <= MaxBalance

\* line 292-301: /start [referralCode]; code6 is what nanoid(6) returns if
\* line 110 calls it.  In every action delivered is the outcome of the
\* notification the operation attempts.
StartN(id, referralCode, code6, delivered) ==
    /\ findUserById(DbRead(persisted), id) = 0 => code6 \in NanoId6(DbRead(persisted))
    /\ Commit("start", referralCode,
              registerUserIfNotExists(persisted, id, referralCode, code6, delivered))
    /\ UNCHANGED <<userSessions, now>>

Start(id, referralCode, code6) ==
    \E delivered \in BOOLEAN : StartN(id, referralCode, code6, delivered)

\* line 139-172, called from /confirm (line 544)
ConfirmPurchaseN(userId, packageType, delivered) ==
    LET o == confirmPurchase(persisted, userId, packageType, delivered)
    IN  /\ WithinBalance(o)
        /\ Commit("confirmPurchase", userId, o)
        /\ UNCHANGED <<userSessions, now>>

ConfirmPurchase(userId, packageType) ==
    \E delivered \in BOOLEAN : ConfirmPurchaseN(userId, packageType, delivered)

\* line 238-260, called from /add_pending (line 513)
AddPendingPurchaseN(userId, packageType, note, delivered) ==
    /\ RoomForPending
    /\ Commit("addPendingPurchase", userId,
              addPendingPurchase(persisted, userId, packageType, note, delivered))
    /\ UNCHANGED <<userSessions, now>>

AddPendingPurchase(userId, packageType, note) ==
    \E delivered \in BOOLEAN :
        AddPendingPurchaseN(userId, packageType, note, delivered)

\* line 69-90 called as line 397 and 430 call it: with the user object found
\* in db.data
CreateWithdrawal(id, amount, paymentMethod) ==
    LET i == findUserById(mem, id)
        o == createWithdrawRequestDynamic(persisted, UserAt(mem, i), amount,
                                          paymentMethod, now)
    IN  /\ i # 0
        /\ RoomForWithdraw
        /\ Commit("createWithdrawal", amount, o)
        /\ Stamped(o)
        /\ UNCHANGED userSessions

\* line 175-190, called with the user object found in db.data
CreateWithdrawalFullBalance(id) ==
    LET i == findUserById(mem, id)
        o == createWithdrawRequest(persisted, UserAt(mem, i), now)
    IN  /\ i # 0
        /\ RoomForWithdraw
        /\ Commit("createWithdrawalFullBalance", 0, o)
        /\ Stamped(o)
        /\ UNCHANGED userSessions

\* line 193-210, called from /approve (line 596)
ApproveWithdrawalN(withdrawId, note, delivered) ==
    LET o == approveWithdrawRequest(persisted, withdrawId, note, now, delivered)
    IN  /\ Commit("approveWithdrawal", withdrawId, o)
        /\ Stamped(o)
        /\ UNCHANGED userSessions

ApproveWithdrawal(withdrawId, note) ==
    \E delivered \in BOOLEAN : ApproveWithdrawalN(withdrawId, note, delivered)

\* line 213-235, called from /reject (line 609)
RejectWithdrawalN(withdrawId, reason, delivered) ==
    LET o == rejectWithdrawRequest(persisted, withdrawId, reason, now, delivered)
    IN  /\ WithinBalance(o)
        /\ Commit("rejectWithdrawal", withdrawId, o)
        /\ Stamped(o)
        /\ UNCHANGED userSessions

RejectWithdrawal(withdrawId, reason) ==
    \E delivered \in BOOLEAN : RejectWithdrawalN(withdrawId, reason, delivered)

\* BelowMinimum without the check
BelowMinimum_Never(balance) == FALSE

\* line 377: (user.balance || 0) < MIN_WITHDRAW
BelowMinimum(balance) == balance < MIN_WITHDRAW

\* line 373-384: /withdraw
WithdrawCommand(id) ==
    LET data == DbRead(persisted)
        i == findUserById(data, id)
    IN  /\ mem' = data
        /\ IF i = 0
           THEN /\ last' = Result("withdraw", 0, FALSE, "Please /start first", NoUser)
                /\ UNCHANGED userSessions
           ELSE IF BelowMinimum(data.users[i].balance)
           THEN /\ last' = Result("withdraw", 0, FALSE, "Minimum withdraw",
                                  data.users[i])
                /\ UNCHANGED userSessions
           ELSE /\ last' = Result("withdraw", 0, TRUE, "", data.users[i])
                /\ userSessions' =
                       [userSessions EXCEPT ![id] = [step |-> "amount", amount |-> 0]]
        /\ suspended' = Detach(suspended)
        /\ UNCHANGED <<persisted, now, inflight>>

\* line 404-409: the checks of the amount step
AmountReply(p, balance) ==
    IF p.nan \/ p.val <= 0 \/ p.val % 100 # 0 THEN "Invalid amount"
    ELSE IF p.val > balance THEN "Insufficient balance"
    ELSE "ok"

\* line 391-392: the text that cancels a session
IsCancel(message) == ToLowerCase(Trim(message)) = Str("cancel")

\* DeleteSession that starts the session over instead of deleting it
DeleteSession_Restart(sessions, id) ==
    [sessions EXCEPT ![id] = [step |-> "amount", amount |-> @.amount]]

\* line 393, 450: delete userSessions[ctx.from.id]
DeleteSession(sessions, id) == [sessions EXCEPT ![id] = NoSession]

\* SessionAfterCommit that deletes the session whatever the result
SessionAfterCommit_Always(sessions, id, done) == DeleteSession(sessions, id)

\* line 435-450: a failed createWithdrawRequestDynamic returns on line 435
\* and keeps the session; otherwise line 450 deletes it
SessionAfterCommit(sessions, id, done) ==
    IF done THEN DeleteSession(sessions, id) ELSE sessions

\* line 387-453: a text message; delivered: the message to the admin
\* (line 438-445)
TextMessageN(id, message, delivered) ==
    LET session == userSessions[id]
        i == findUserById(mem, id)
        user == UserAt(mem, i)
        reply == AmountReply(ParseInt(message), user.balance)
        method == MethodOf(ToLowerCase(Trim(message)))
        o == createWithdrawRequestDynamic(persisted, user, session.amount,
                                          method, now)
    IN  /\ session.step # "idle"
        /\ UNCHANGED inflight
        /\ IF IsCancel(message)
           THEN /\ userSessions' = DeleteSession(userSessions, id)
                /\ last' = Result("text", session.amount, TRUE,
                                  "Withdraw canceled", NoUser)
                /\ UNCHANGED <<persisted, mem, now, suspended>>
           ELSE IF i = 0
           THEN /\ last' = Result("text", 0, FALSE, "User not found", NoUser)
                /\ UNCHANGED <<persisted, mem, userSessions, now, suspended>>
           ELSE IF session.step = "amount"
           THEN /\ last' = Result("text",
                                  IF reply = "ok" THEN ParseInt(message).val ELSE 0,
                                  reply = "ok",
                                  IF reply = "ok" THEN "" ELSE reply, user)
                /\ userSessions' =
                       IF reply = "ok"
                       THEN [userSessions EXCEPT
                                ![id] = [step |-> "method",
                                         amount |-> ParseInt(message).val]]
                       ELSE userSessions
                /\ UNCHANGED <<persisted, mem, now, suspended>>
           ELSE IF method = Null
           THEN /\ last' = Result("text", 0, FALSE, "Invalid method", user)
                /\ UNCHANGED <<persisted, mem, userSessions, now, suspended>>
           ELSE /\ RoomForWithdraw
                /\ Commit("text", session.amount, o)
                /\ Stamped(o)
                /\ userSessions' =
                       SessionAfterCommit(
                           userSessions, id,
                           o.ok /\ TryCatch(SendMessage(delivered)) = "done")

TextMessage(id, message) ==
    \E delivered \in BOOLEAN : TextMessageN(id, message, delivered)

\* line 97-100: the hourly backup
Backup ==
    /\ persisted' = SaveDB(mem)
    /\ last' = Result("backup", 0, TRUE, "", NoUser)
    /\ UNCHANGED <<mem, userSessions, now, inflight, suspended>>

\* line 170 throws: confirmPurchase has changed db.data (line 145-168) and
\* the error of saveDB() leaves the function; db.json is as it was
ConfirmPurchaseSaveFails(userId, packageType) ==
    LET o == confirmPurchase(persisted, userId, packageType, TRUE)
    IN  /\ o.ok
        /\ WithinBalance(o)
        /\ Commit("confirmPurchase", userId, Thrown(o.data, persisted))
        /\ UNCHANGED <<userSessions, now>>

\* line 88 throws: createWithdrawRequestDynamic has pushed the request
\* (line 86) and the error of saveDB() leaves the function
CreateWithdrawalSaveFails(id, amount, paymentMethod) ==
    LET i == findUserById(mem, id)
        o == createWithdrawRequestDynamic(persisted, UserAt(mem, i), amount,
                                          paymentMethod, now)
    IN  /\ i # 0
        /\ o.ok
        /\ RoomForWithdraw
        /\ Commit("createWithdrawal", amount, Thrown(o.data, persisted))
        /\ UNCHANGED <<userSessions, now>>

\* line 355-356: /balance calls db.read(), which fetches the content of
\* db.json; the handler waits for it
BalanceRead(id) ==
    /\ ~inflight[id].reading
    /\ inflight' = [inflight EXCEPT ![id] = [reading |-> TRUE, content |-> persisted]]
    /\ UNCHANGED <<persisted, mem, userSessions, now, last, suspended>>

\* line 356-369: the db.read() of /balance resolves: db.data becomes the
\* graph parsed from the content it fetched, and the handler replies
BalanceReply(id) ==
    LET data == DbRead(inflight[id].content)
        i == findUserById(data, id)
    IN  /\ inflight[id].reading
        /\ mem' = data
        /\ inflight' = [inflight EXCEPT ![id] = NoRead]
        /\ suspended' = Detach(suspended)
        /\ last' = IF i = 0
                   THEN Result("balance", 0, FALSE, "Please /start first", NoUser)
                   ELSE Result("balance", data.users[i].balance, TRUE, "",
                               data.users[i])
        /\ UNCHANGED <<persisted, userSessions, now>>

\* ------------------------------------------------------- specifications
\* Registration and purchases, with every identity, code and package.
NextReferral ==
    \/ \E id \in UserIds, c \in Codes \cup {NoCode}, code6 \in Codes :
           Start(id, c, code6)
    \/ \E id \in UserIds, p \in PackageArgs : ConfirmPurchase(id, p)
    \/ Backup

SpecReferral == Init /\ [][NextReferral]_vars

\* The withdrawal life cycle and the withdraw session.  Balances are earned
\* as in the program, by registrations and confirmed purchases: user 1
\* registers without a code, user 2 without one or with the code of user 1,
\* and user id draws code id from nanoid.
StartWithdraw ==
    \E id \in UserIds, c \in {NoCode, 1} : id >= 1 + c /\ Start(id, c, id)

NextWithdraw ==
    \/ StartWithdraw
    \/ \E id \in UserIds, p \in {"Basic", "Gold"} : ConfirmPurchase(id, p)
    \/ \E id \in UserIds, a \in AmountArgs : CreateWithdrawal(id, a, "CBE")
    \/ \E w \in 1..(MaxWithdraws + 1), n \in Notes : ApproveWithdrawal(w, n)
    \/ \E w \in 1..(MaxWithdraws + 1), n \in Notes : RejectWithdrawal(w, n)
    \/ \E id \in UserIds : WithdrawCommand(id)
    \/ \E id \in UserIds, t \in Texts : TextMessage(id, t)
    \/ Backup

SpecWithdraw == Init /\ [][NextWithdraw]_vars

\* Every operation that touches a balance, the full-balance variant included.
\* User 1 is the referrer who earns and withdraws the full balance, user 2
\* the purchaser whose payment is recorded as pending; the texts are those
\* that move a session or end it.
LedgerTexts ==
    { <<"c","a","n","c","e","l">>, <<"2","0","0">>, <<"1","5","0">>,
      <<"m","y"," ","C","B","E">> }

NextLedger ==
    \/ StartWithdraw
    \/ \E id \in UserIds : ConfirmPurchase(id, "Basic")
    \/ \E id \in UserIds, a \in AmountArgs : CreateWithdrawal(id, a, "CBE")
    \/ CreateWithdrawalFullBalance(1)
    \/ (Len(persisted.pendingPurchases) < MaxLedgerPending
           /\ AddPendingPurchase(2, "Basic", ""))
    \/ \E w \in 1..(MaxWithdraws + 1), n \in Notes : ApproveWithdrawal(w, n)
    \/ \E w \in 1..(MaxWithdraws + 1), n \in Notes : RejectWithdrawal(w, n)
    \/ \E id \in UserIds : WithdrawCommand(id)
    \/ \E id \in UserIds, t \in LedgerTexts : TextMessage(id, t)
    \/ Backup

SpecLedger == Init /\ [][NextLedger]_vars

\* Recorded payments and their confirmation: both users, two packages and,
\* for a recorded payment, one unknown package name.
NextPending ==
    \/ StartWithdraw
    \/ \E id \in UserIds, p \in {"Basic", "VIP", "Gold"} :
           AddPendingPurchase(id, p, "")
    \/ \E id \in UserIds, p \in {"Basic", "VIP"} : ConfirmPurchase(id, p)
    \/ Backup

SpecPending == Init /\ [][NextPending]_vars

\* The operations that notify somebody: registration, confirmation, recorded
\* payment, approval, rejection and the withdraw session.
NextNotify ==
    \/ StartWithdraw
    \/ \E id \in UserIds : ConfirmPurchase(id, "Basic")
    \/ (Len(persisted.pendingPurchases) < MaxLedgerPending
           /\ AddPendingPurchase(2, "Basic", ""))
    \/ \E w \in 1..(MaxWithdraws + 1), n \in Notes : ApproveWithdrawal(w, n)
    \/ \E w \in 1..(MaxWithdraws + 1), n \in Notes : RejectWithdrawal(w, n)
    \/ \E id \in UserIds : WithdrawCommand(id)
    \/ \E id \in UserIds, t \in LedgerTexts : TextMessage(id, t)
    \/ Backup

SpecNotify == Init /\ [][NextNotify]_vars

\* The hourly backup next to registrations, confirmed purchases and a
\* /balance whose db.read() is under way while they run.
NextBackup ==
    \/ StartWithdraw
    \/ \E id \in UserIds : ConfirmPurchase(id, "Basic")
    \/ \E id \in UserIds : BalanceRead(id)
    \/ \E id \in UserIds : BalanceReply(id)
    \/ Backup

SpecBackup == Init /\ [][NextBackup]_vars

\* Operations whose saveDB() may fail, the backup and the withdraw session.
NextPersist ==
    \/ StartWithdraw
    \/ \E id \in UserIds : ConfirmPurchase(id, "Basic")
    \/ \E id \in UserIds : ConfirmPurchaseSaveFails(id, "Basic")
    \/ \E id \in UserIds : CreateWithdrawal(id, 200, "CBE")
    \/ \E id \in UserIds : CreateWithdrawalSaveFails(id, 200, "CBE")
    \/ \E id \in UserIds : WithdrawCommand(id)
    \/ \E id \in UserIds, t \in LedgerTexts \cup {<<"4","0","0">>} :
           TextMessage(id, t)
    \/ Backup

SpecPersist == Init /\ [][NextPersist]_vars

\* ----------------------------------------------------------------- claims
\* the balance the record of user id carries in data, and the users' ids
BalanceOf(data, id) == UserAt(data, findUserById(data, id)).balance

IdsOf(data) == {data.users[i].id : i \in 1..Len(data.users)}

Balances(data) == [id \in IdsOf(data) |-> BalanceOf(data, id)]

\* C1: every user's balance is at least 0 in every reachable state: in the
\* file, in db.data and on the user object the last operation held.
C1_BalanceNonNegative ==
    /\ \A i \in 1..Len(persisted.users) : persisted.users[i].balance >= 0
    /\ \A i \in 1..Len(mem.users) : mem.users[i].balance >= 0
    /\ last.user.balance >= 0

\* a withdrawal took the whole balance of the user object it was handed
C1_Witness ==
    /\ last.op \in {"createWithdrawal", "text"}
    /\ last.ok
    /\ last.arg = 200
    /\ last.user.id # 0
    /\ last.user.balance = 0
    /\ Len(persisted.withdraws) = 1

\* the step is a successful createWithdrawRequestDynamic call for user id
\* with amount a, made directly or by the method step of the session
CreatedFor(id, a) ==
    /\ last'.ok
    /\ last'.user.id = id
    /\ last'.arg = a
    /\ \/ last'.op = "createWithdrawal"
       \/ /\ last'.op = "text"
          /\ last'.error = ""
          /\ userSessions[id].step = "method"

\* the step appended one pending request of user id for amount a
AppendedPending(id, a) ==
    /\ Len(persisted'.withdraws) = Len(persisted.withdraws) + 1
    /\ SubSeq(persisted'.withdraws, 1, Len(persisted.withdraws)) = persisted.withdraws
    /\ LET w == persisted'.withdraws[Len(persisted'.withdraws)]
       IN  /\ w.status = "pending"
           /\ w.userId = id
           /\ w.amount = a
           /\ w.paymentMethod \in Methods

\* C2: a successful createWithdrawal appends exactly one pending request of
\* that user for that amount and, in the same step, reduces the user's
\* balance in the persisted snapshot by the amount.
C2_ReservedAtCreation ==
    [][\A id \in UserIds, a \in AmountArgs :
          CreatedFor(id, a) =>
              /\ AppendedPending(id, a)
              /\ BalanceOf(persisted', id) = BalanceOf(persisted, id) - a]_vars

\* C3: rejecting a pending request adds its amount to the owner's balance
\* and to no other balance; approving a pending request changes no balance;
\* rejecting or approving a request that is no longer pending changes no
\* balance, so a request is refunded at most once.
C3_RejectRefundsOnce ==
    [][\A k \in 1..Len(persisted.withdraws) :
          LET w == persisted.withdraws[k]
              hit == last'.arg = w.id
          IN  /\ (last'.op = "rejectWithdrawal" /\ hit /\ w.status = "pending") =>
                  /\ last'.ok
                  /\ persisted'.withdraws[k].status = "rejected"
                  /\ \A id \in IdsOf(persisted) :
                         BalanceOf(persisted', id) =
                             BalanceOf(persisted, id)
                                 + (IF id = w.userId THEN w.amount ELSE 0)
              /\ (last'.op = "approveWithdrawal" /\ hit /\ w.status = "pending") =>
                  /\ last'.ok
                  /\ persisted'.withdraws[k].status = "approved"
                  /\ Balances(persisted') = Balances(persisted)
              /\ (last'.op \in {"rejectWithdrawal", "approveWithdrawal"}
                      /\ hit /\ w.status # "pending") =>
                  /\ Balances(persisted') = Balances(persisted)
                  /\ persisted'.withdraws[k].status = w.status]_vars

\* a pending request was rejected and its owner has the amount back
C3_Witness ==
    /\ last.op = "rejectWithdrawal"
    /\ last.ok
    /\ \E k \in 1..Len(persisted.withdraws) :
           /\ persisted.withdraws[k].id = last.arg
           /\ persisted.withdraws[k].status = "rejected"
           /\ persisted.withdraws[k].userId = last.user.id
           /\ last.user.balance >= persisted.withdraws[k].amount

\* C4: a request leaves "pending" at most once, for "approved" or
\* "rejected"; once resolved the record never changes, and approving or
\* rejecting it returns "Not pending" and changes nothing.
C4_ResolvedOnce ==
    [][\A k \in 1..Len(persisted.withdraws) :
          LET w == persisted.withdraws[k]
              w2 == persisted'.withdraws[k]
          IN  /\ Len(persisted'.withdraws) >= Len(persisted.withdraws)
              /\ w2.status # w.status =>
                     w.status = "pending" /\ w2.status \in {"approved", "rejected"}
              /\ w.status # "pending" => w2 = w
              /\ (last'.op \in {"approveWithdrawal", "rejectWithdrawal"}
                      /\ last'.arg = w.id /\ w.status # "pending") =>
                     /\ ~last'.ok
                     /\ last'.error = "Not pending"
                     /\ persisted' = persisted
                     /\ mem' = persisted]_vars

\* a resolved request was approved or rejected again
C4_Witness ==
    /\ last.op \in {"approveWithdrawal", "rejectWithdrawal"}
    /\ last.error = "Not pending"
    /\ \E k \in 1..Len(persisted.withdraws) :
           /\ persisted.withdraws[k].id = last.arg
           /\ persisted.withdraws[k].status \in {"approved", "rejected"}

\* the results the error taxonomy calls InvalidAmount and InsufficientBalance
InvalidAmount == {"Invalid amount", "Amount must end with 00"}

InsufficientBalance == {"Insufficient balance"}

\* C5 as stated: createWithdrawal fails with InsufficientBalance whenever
\* amount > balance and with InvalidAmount whenever amount <= 0 or amount is
\* no multiple of 100; a failing call changes no balance and no request.
C5_FailureModes ==
    [][last'.op = "createWithdrawal" =>
          LET a == last'.arg
              balance == BalanceOf(mem, last'.user.id)
          IN  /\ a > balance => ~last'.ok /\ last'.error \in InsufficientBalance
              /\ (a <= 0 \/ a % 100 # 0) => ~last'.ok /\ last'.error \in InvalidAmount
              /\ ~last'.ok => persisted' = persisted /\ mem' = persisted]_vars

\* C5 amended: createWithdrawal fails with InsufficientBalance whenever
\* amount > 0 and amount > balance, and with InvalidAmount whenever
\* amount <= 0, or amount is no multiple of 100 and does not exceed the
\* balance; a failing call changes no balance and no request.
C5_FailureModesInOrder ==
    [][last'.op = "createWithdrawal" =>
          LET a == last'.arg
              balance == BalanceOf(mem, last'.user.id)
          IN  /\ (a > 0 /\ a > balance) =>
                     ~last'.ok /\ last'.error \in InsufficientBalance
              /\ (a <= 0 \/ (a % 100 # 0 /\ a <= balance)) =>
                     ~last'.ok /\ last'.error \in InvalidAmount
              /\ ~last'.ok => persisted' = persisted /\ mem' = persisted]_vars

\* an amount that exceeds the balance and is no multiple of 100 was refused
C5_Witness ==
    /\ last.op = "createWithdrawal"
    /\ last.arg = 150
    /\ last.arg > last.user.balance
    /\ last.error = "Insufficient balance"

\* the texts that name a payment method
MethodTexts == {t \in Texts : MethodOf(ToLowerCase(Trim(t))) # Null}

\* C6: when a user whose session awaits the method, with a stored multiple
\* of 100 that does not exceed the balance b, sends a recognised method,
\* there is exactly one new pending request of that user for the amount,
\* the user's balance is b minus the amount and the session is deleted.
C6_HappyPath ==
    [][\A id \in UserIds, t \in MethodTexts :
          LET a == userSessions[id].amount
              b == BalanceOf(persisted, id)
          IN  (/\ userSessions[id].step = "method"
               /\ a > 0 /\ a % 100 = 0 /\ a <= b
               /\ TextMessage(id, t)) =>
                  /\ AppendedPending(id, a)
                  /\ BalanceOf(persisted', id) = b - a
                  /\ userSessions'[id] = NoSession]_vars

\* the texts the claim calls the input "cancel"
CancelTexts == {<<"c","a","n","c","e","l">>}

\* C7: in either session state the input "cancel" deletes the user's
\* session and leaves every balance, the withdrawals and every other
\* session unchanged, whatever amount the session holds.
C7_CancelFrame ==
    [][\A id \in UserIds, t \in CancelTexts :
          (userSessions[id].step \in {"amount", "method"} /\ TextMessage(id, t)) =>
              /\ userSessions'[id] = NoSession
              /\ \A other \in UserIds \ {id} :
                     userSessions'[other] = userSessions[other]
              /\ persisted' = persisted
              /\ mem' = mem]_vars

\* a session that held an amount was cancelled
C7_Witness ==
    /\ last.op = "text"
    /\ last.error = "Withdraw canceled"
    /\ last.arg = 200
    /\ \E id \in UserIds :
           userSessions[id] = NoSession /\ BalanceOf(persisted, id) >= 200

\* C8: /start for an identity that already exists returns the existing
\* record, adds no user and leaves the record's referralCode, referredBy and
\* balance as they were, whatever code the call carries.
C8_RegisterIdempotent ==
    [][\A id \in IdsOf(persisted) :
          (last'.op = "start" /\ last'.user.id = id) =>
              LET i == findUserById(persisted, id)
              IN  /\ last'.user = persisted.users[i]
                  /\ Len(persisted'.users) = Len(persisted.users)
                  /\ persisted'.users[i] = persisted.users[i]
                  /\ persisted' = persisted]_vars

\* an existing user sent /start with a code that is not its referredBy
C8_Witness ==
    /\ last.op = "start"
    /\ last.arg # NoCode
    /\ last.arg # last.user.referredBy
    /\ last.user \in {persisted.users[i] : i \in 1..Len(persisted.users)}

\* C9: every referredBy that is not null is the referralCode of a user
\* created earlier (db.data.users is in creation order).
C9_ReferredByResolves ==
    \A i \in 1..Len(persisted.users) :
        persisted.users[i].referredBy # NoCode =>
            \E j \in 1..(i - 1) :
                persisted.users[j].referralCode = persisted.users[i].referredBy

\* the commissions the claim names
FixedCommission(p) ==
    CASE p = "Basic" -> 200 [] p = "Premium" -> 400 [] p = "VIP" -> 500

\* C10: a successful confirmPurchase(userId, p) adds the fixed commission
\* of p to the balance of the user whose referralCode is the purchaser's
\* referredBy, when there is one, and changes no other balance.
C10_CommissionToReferrer ==
    [][\A id \in UserIds, p \in PackageNames :
          (ConfirmPurchase(id, p) /\ last'.ok) =>
              LET buyer == UserAt(persisted, findUserById(persisted, id))
              IN  /\ IdsOf(persisted') = IdsOf(persisted)
                  /\ \A i \in 1..Len(persisted.users) :
                         persisted'.users[i].balance =
                             persisted.users[i].balance
                                 + (IF /\ buyer.referredBy # NoCode
                                       /\ persisted.users[i].referralCode
                                              = buyer.referredBy
                                    THEN FixedCommission(p) ELSE 0)]_vars

\* a VIP purchase was confirmed and the referrer holds the 500
C10_Witness ==
    /\ last.op = "confirmPurchase"
    /\ last.ok
    /\ last.user.package = "VIP"
    /\ \E i \in 1..Len(persisted.users) :
           /\ persisted.users[i].referralCode = last.user.referredBy
           /\ persisted.users[i].id # last.user.id
           /\ persisted.users[i].balance = 500

\* C11: a successful confirmPurchase(userId, packageType) removes every
\* pending entry of exactly that user and package and leaves every other
\* entry in the collection, unchanged and in the same order.
C11_PendingRemovedExactly ==
    [][\A id \in UserIds, p \in PackageNames :
          (ConfirmPurchase(id, p) /\ last'.ok) =>
              LET Other(e) == ~(e.userId = id /\ e.package = p)
              IN  persisted'.pendingPurchases =
                      SelectSeq(persisted.pendingPurchases, Other)]_vars

\* a confirmation removed an earlier entry and left a later entry of the
\* same user for another package
C11_Witness ==
    /\ last.op = "confirmPurchase"
    /\ last.ok
    /\ Len(persisted.pendingPurchases) = 1
    /\ persisted.pendingPurchases[1].id = 2
    /\ persisted.pendingPurchases[1].userId = last.arg
    /\ persisted.pendingPurchases[1].package # last.user.package

\* the whole (trimmed) text is an optionally signed decimal numeral
IsIntegerText(s) ==
    LET t == Trim(s)
        u == IF t # <<>> /\ Head(t) \in {"-", "+"} THEN Tail(t) ELSE t
    IN  u # <<>> /\ \A i \in 1..Len(u) : IsDigit(u[i])

\* the amount step of user id on text t: the session moves to the method
\* step with the amount exactly when accepted, and nothing else changes
AmountStep(id, t, accepted) ==
    /\ persisted' = persisted
    /\ mem' = mem
    /\ \A other \in UserIds \ {id} : userSessions'[other] = userSessions[other]
    /\ userSessions'[id] =
           IF accepted
           THEN [step |-> "method", amount |-> ParseInt(t).val]
           ELSE userSessions[id]

\* C12: in the amount step a text that is no integer, is <= 0, is no
\* multiple of 100 or exceeds the balance leaves the session in the amount
\* step; a text passing the four checks stores the amount and moves the
\* session to the method step; neither changes a balance or a withdrawal.
C12_AmountStep ==
    [][\A id \in UserIds, t \in Texts :
          (userSessions[id].step = "amount" /\ ~IsCancel(t) /\ TextMessage(id, t)) =>
              LET v == ParseInt(t).val
              IN  AmountStep(id, t, /\ IsIntegerText(t)
                                    /\ v > 0
                                    /\ v % 100 = 0
                                    /\ v <= BalanceOf(mem, id))]_vars

\* C12 with "parses as an integer" read as parseInt reads it: the text
\* starts with an integer
C12_AmountStepPrefix ==
    [][\A id \in UserIds, t \in Texts :
          (userSessions[id].step = "amount" /\ ~IsCancel(t) /\ TextMessage(id, t)) =>
              LET v == ParseInt(t).val
              IN  AmountStep(id, t, /\ ~ParseInt(t).nan
                                    /\ v > 0
                                    /\ v % 100 = 0
                                    /\ v <= BalanceOf(mem, id))]_vars

\* C13: /withdraw puts the sender's session in the amount step exactly when
\* the sender is a registered user whose balance is at least 100; otherwise
\* no session changes; the ledger never changes.
C13_WithdrawCommand ==
    [][\A id \in UserIds :
          WithdrawCommand(id) =>
              /\ persisted' = persisted
              /\ mem' = persisted
              /\ userSessions' =
                     IF id \in IdsOf(persisted) /\ BalanceOf(persisted, id) >= 100
                     THEN [userSessions EXCEPT
                              ![id] = [step |-> "amount", amount |-> 0]]
                     ELSE userSessions]_vars

\* /withdraw started a session for a user who holds at least 100
C13_Witness ==
    /\ last.op = "withdraw"
    /\ last.ok
    /\ last.user.balance >= 100
    /\ userSessions[last.user.id] = [step |-> "amount", amount |-> 0]
    /\ \E id \in IdsOf(persisted) : BalanceOf(persisted, id) < 100

\* C14: whether a notification is delivered or fails makes no difference:
\* every step of an operation that notifies leads to the same collections,
\* the same sessions and the same returned result with either outcome.
C14_DeliveryIrrelevant ==
    [][/\ \A id \in UserIds, c \in {NoCode, 1} :
              StartN(id, c, id, TRUE) <=> StartN(id, c, id, FALSE)
       /\ \A id \in UserIds :
              /\ ConfirmPurchaseN(id, "Basic", TRUE)
                     <=> ConfirmPurchaseN(id, "Basic", FALSE)
              /\ AddPendingPurchaseN(id, "Basic", "", TRUE)
                     <=> AddPendingPurchaseN(id, "Basic", "", FALSE)
       /\ \A w \in 1..(MaxWithdraws + 1), n \in Notes :
              /\ ApproveWithdrawalN(w, n, TRUE) <=> ApproveWithdrawalN(w, n, FALSE)
              /\ RejectWithdrawalN(w, n, TRUE) <=> RejectWithdrawalN(w, n, FALSE)
       /\ \A id \in UserIds, t \in LedgerTexts :
              TextMessageN(id, t, TRUE) <=> TextMessageN(id, t, FALSE)]_vars

\* the method step of a session created a request (and notified the admin)
C14_Witness ==
    /\ last.op = "text"
    /\ last.ok
    /\ last.user.id # 0
    /\ userSessions[last.user.id] = NoSession
    /\ Len(persisted.withdraws) = 1
    /\ persisted.withdraws[1].userId = last.user.id
    /\ persisted.withdraws[1].amount = last.arg
    /\ persisted.withdraws[1].paymentMethod = "CBE"

C16_BackupLosesNothing == [][Backup => persisted' = persisted]_vars

\* C17: an operation whose persist fails commits nothing: the failing step
\* leaves db.json as it was, no later backup writes the aborted changes to
\* db.json, and no later amount step reads a user record that db.json does
\* not hold.
C17_AbortedNotCommitted ==
    [][/\ last'.error = "thrown" => persisted' = persisted
       /\ last'.op = "backup" => persisted' = persisted
       /\ \A id \in UserIds, t \in LedgerTexts :
              (/\ userSessions[id].step = "amount"
               /\ ~IsCancel(t)
               /\ TextMessage(id, t)) =>
                  last'.user = UserAt(persisted, findUserById(persisted, id))]_vars

\* the part of a user record that is fixed at creation
Identity(u) == <<u.id, u.referralCode, u.referredBy>>

CancelledIn(id) ==
    /\ last'.op = "text"
    /\ last'.error = "Withdraw canceled"
    /\ userSessions'[id] = NoSession

\* the step ends the method step of user id by a successful
\* createWithdrawRequestDynamic
CommittedIn(id) ==
    /\ last'.op = "text"
    /\ last'.ok
    /\ last'.user.id = id
    /\ Len(persisted'.withdraws) = Len(persisted.withdraws) + 1
    /\ userSessions'[id] = NoSession

\* a text in the method step that is no "cancel" and does not end in a
\* created request leaves db.json and every session as they were
MethodStepKept(id) ==
    \A t \in LedgerTexts \cup {<<"4","0","0">>} :
        (~IsCancel(t) /\ TextMessage(id, t) /\ ~CommittedIn(id)) =>
            /\ ~last'.ok
            /\ persisted' = persisted
            /\ userSessions' = userSessions

\* C19 as stated: in the method step the session changes only by "cancel"
\* or by a successful createWithdrawal; an unrecognised method and a failed
\* createWithdrawal create no request, change no balance and keep the
\* session with its amount.
C19_MethodStepExits ==
    [][\A id \in UserIds :
          userSessions[id].step = "method" =>
              /\ userSessions'[id] # userSessions[id] =>
                     CancelledIn(id) \/ CommittedIn(id)
              /\ MethodStepKept(id)]_vars

\* C19 amended: in the method step the session changes only by "cancel", by
\* a successful createWithdrawal or by a new /withdraw, which puts it back
\* in the amount step; an unrecognised method and a failed createWithdrawal
\* create no request, change no balance and keep the session with its amount.
C19_MethodStepExitsOrRestart ==
    [][\A id \in UserIds :
          userSessions[id].step = "method" =>
              /\ userSessions'[id] # userSessions[id] =>
                     \/ CancelledIn(id)
                     \/ CommittedIn(id)
                     \/ /\ WithdrawCommand(id)
                        /\ userSessions'[id] = [step |-> "amount", amount |-> 0]
              /\ MethodStepKept(id)]_vars

\* a recognised method was sent and createWithdrawRequestDynamic refused the
\* stored amount: the session is still in the method step
C19_Witness ==
    /\ last.op = "text"
    /\ ~last.ok
    /\ last.error = "Insufficient balance"
    /\ last.user.id # 0
    /\ userSessions[last.user.id].step = "method"
    /\ userSessions[last.user.id].amount > last.user.balance

\* ------------------------------------------------------ the admin commands
\* A JavaScript value that names a Telegram account: its type and the
\* number it is (a number) or spells in digits (a string).
Num(n) == [type |-> "number", val |-> n]

Text(n) == [type |-> "string", val |-> n]

\* a === b: no conversion; values of different types are never equal
StrictEquals(a, b) == a.type = b.type /\ a.val = b.val

\* line 16: process.env.ADMIN_ID, the string the environment holds; the
\* administrator is the account of user 1
ADMIN_ID == Text(1)

\* ctx.from of an update: Telegram sends from.id as a JSON number
Senders == {Num(id) : id \in UserIds}

\* line 44-46
isAdmin(from) == StrictEquals(from, ADMIN_ID)

\* line 464, 505, 537, 590, 603, 618, 656: if (!isAdmin(ctx)) return
\* ctx.reply("You are not admin.")
NotAdmin(op, from) ==
    /\ last' = Result(op, from.val, FALSE, "You are not admin.", NoUser)
    /\ UNCHANGED <<persisted, mem, userSessions, now, inflight, suspended>>

\* line 655-668: what /setpackage does once the sender is let through
setPackage(file, userId, packageType) ==
    LET data == DbRead(file)
        i == findUserById(data, userId)
        data1 == [data EXCEPT !.users[i].package = packageType]
    IN  IF i = 0 THEN Outcome(data, file, FALSE, "User not found.", NoUser)
        ELSE IF packageType \notin PackageNames
        THEN Outcome(data, file, FALSE, "Invalid package type.", NoUser)
        ELSE Outcome(data1, SaveDB(data1), TRUE, "", data1.users[i])

\* line 263-274: db.read(), then one message to every user; a failed
\* delivery is ignored
broadcastMessage(file) == Outcome(DbRead(file), file, TRUE, "", NoUser)

\* line 504-518: /add_pending <userId> <package> [note]
AddPendingCommand(from, userId, packageType, note) ==
    IF ~isAdmin(from) THEN NotAdmin("add_pending", from)
    ELSE AddPendingPurchase(userId, packageType, note)

\* line 536-549: /confirm <userId> <package>
ConfirmCommand(from, userId, packageType) ==
    IF ~isAdmin(from) THEN NotAdmin("confirm", from)
    ELSE ConfirmPurchase(userId, packageType)

\* line 589-599: /approve <withdrawId> [note]
ApproveCommand(from, withdrawId, note) ==
    IF ~isAdmin(from) THEN NotAdmin("approve", from)
    ELSE ApproveWithdrawal(withdrawId, note)

\* line 602-614: /reject <withdrawId> [reason]
RejectCommand(from, withdrawId, reason) ==
    IF ~isAdmin(from) THEN NotAdmin("reject", from)
    ELSE RejectWithdrawal(withdrawId, reason)

\* line 617-624: /broadcast <message>
BroadcastCommand(from) ==
    IF ~isAdmin(from) THEN NotAdmin("broadcast", from)
    ELSE /\ Commit("broadcast", 0, broadcastMessage(persisted))
         /\ UNCHANGED <<userSessions, now>>

\* line 655-670: /setpackage <userId> <package>
SetPackageCommand(from, userId, packageType) ==
    IF ~isAdmin(from) THEN NotAdmin("setpackage", from)
    ELSE /\ Commit("setpackage", userId, setPackage(persisted, userId, packageType))
         /\ UNCHANGED <<userSessions, now>>

\* The six commands of the administrator from sender from
AdminCommand(from) ==
    \/ \E id \in UserIds, p \in PackageArgs : AddPendingCommand(from, id, p, "")
    \/ \E id \in UserIds, p \in PackageArgs : ConfirmCommand(from, id, p)
    \/ \E w \in 1..(MaxWithdraws + 1), n \in Notes : ApproveCommand(from, w, n)
    \/ \E w \in 1..(MaxWithdraws + 1), n \in Notes : RejectCommand(from, w, n)
    \/ BroadcastCommand(from)
    \/ \E id \in UserIds, p \in PackageArgs : SetPackageCommand(from, id, p)

\* The dispatcher: registrations, /withdraw, the backup and the commands of
\* the administrator, sent by either account.
NextAdmin ==
    \/ \E id \in UserIds, c \in Codes \cup {NoCode}, code6 \in Codes :
           Start(id, c, code6)
    \/ \E id \in UserIds : WithdrawCommand(id)
    \/ Backup
    \/ \E from \in Senders : AdminCommand(from)

SpecAdmin == Init /\ [][NextAdmin]_vars

\* the sender is the account that ADMIN_ID names
IsAdministrator(from) == from.val = ADMIN_ID.val

\* the command was turned away at the authorization check
Refused == last'.error = "You are not admin."

\* C20: an admin-only command (add_pending, confirm, approve, reject,
\* broadcast, setpackage) takes effect if and only if its sender is the
\* configured administrator: sent by anybody else it is refused and changes
\* no ledger state, and sent by the administrator it passes the
\* authorization check and reaches the ledger operation.
C20_AdminOnly ==
    [][\A from \in Senders :
           AdminCommand(from) =>
               IF IsAdministrator(from) THEN ~Refused
               ELSE Refused /\ persisted' = persisted /\ mem' = mem]_vars

RECURSIVE Reserved(_, _, _)
\* the amounts of the pending and approved requests of user id among the
\* first k requests of seq
Reserved(seq, id, k) ==
    IF k = 0 THEN 0
    ELSE Reserved(seq, id, k - 1)
             + (IF seq[k].userId = id /\ seq[k].status \in {"pending", "approved"}
                THEN seq[k].amount ELSE 0)

\* what user id holds in data: the balance and what the requests reserve
Held(data, id) == BalanceOf(data, id) + Reserved(data.withdraws, id, Len(data.withdraws))

\* the commission the step credits to user id: what a successful
\* confirmPurchase adds to the balance
CreditedInStep(id) ==
    IF last'.op = "confirmPurchase" /\ last'.ok
    THEN BalanceOf(persisted', id) - BalanceOf(persisted, id)
    ELSE 0

\* C21: ledger conservation.  Every user holds nothing at the start, and
\* every step adds to a user's balance plus the amounts of the user's
\* pending and approved requests exactly the commission a confirmPurchase
\* credits in that step: in every reachable state the sum equals the total
\* commission credited, and creating, approving and rejecting withdrawals
\* neither create nor destroy money.
C21_Conservation ==
    [][\A id \in UserIds :
           Held(persisted', id) = Held(persisted, id) + CreditedInStep(id)]_vars

\* --------------------------------------- handlers that overlap at an await
\* the requests the specification of the overlapping runs lets exist
MaxRaceWithdraws == 2

\* no run of the text handler is under way
NoRunUnderWay == \A h \in Slots : suspended.text[h].pc = "idle"

\* a run under way whose user object is the one findUserById(id) returns
\* now: it found the object in the graph db.data still refers to
SharedWith(id) ==
    {g \in Slots : /\ suspended.text[g].pc # "idle"
                   /\ suspended.text[g].attached
                   /\ suspended.text[g].user.id = id}

\* a name for an object no run holds
FreshObj == CHOOSE n \in Slots : \A g \in Slots : suspended.text[g].obj # n

\* line 388-432 and line 70: a recognised method arrives in the method
\* step; the handler finds its user object, calls
\* createWithdrawRequestDynamic and waits for db.read()
MethodBegin(h, id, message) ==
    LET session == userSessions[id]
        i == findUserById(mem, id)
        method == MethodOf(ToLowerCase(Trim(message)))
        obj == IF SharedWith(id) = {} THEN FreshObj
               ELSE suspended.text[CHOOSE g \in SharedWith(id) : TRUE].obj
    IN  /\ suspended.text[h].pc = "idle"
        /\ session.step = "method"
        /\ ~IsCancel(message)
        /\ i # 0
        /\ method # Null
        /\ suspended' =
               [suspended EXCEPT
                   !.text[h] = [pc |-> "read", user |-> UserAt(mem, i),
                                obj |-> obj, amount |-> session.amount,
                                method |-> method, attached |-> TRUE]]
        /\ UNCHANGED <<persisted, mem, userSessions, now, last, inflight>>

\* line 87 writes to the object obj: every run that holds it sees the
\* balance that is left
Deducted(text, obj, balance) ==
    [g \in Slots |->
        IF text[g].pc # "idle" /\ text[g].obj = obj
        THEN [text[g] EXCEPT !.user.balance = balance]
        ELSE text[g]]

\* line 70-89 and 435: db.read() resolves and createWithdrawRequestDynamic
\* runs to its end (saveDB() included); a failure is replied and ends the
\* run, a success leaves it waiting for the message to the admin
MethodResolve(h) ==
    LET run == suspended.text[h]
        o == createWithdrawRequestDynamic(persisted, run.user, run.amount,
                                          run.method, now)
        detached == Detach(suspended).text
    IN  /\ run.pc = "read"
        /\ o.ok => Len(persisted.withdraws) < MaxRaceWithdraws
        /\ persisted' = o.file
        /\ mem' = o.data
        /\ last' = Result("text", run.amount, o.ok, o.error, o.user)
        /\ Stamped(o)
        /\ suspended' =
               [suspended EXCEPT
                   !.text =
                       IF o.ok
                       THEN [Deducted(detached, run.obj, o.user.balance)
                                EXCEPT ![h].pc = "notify"]
                       ELSE [detached EXCEPT ![h] = NoRun]]
        /\ UNCHANGED <<userSessions, inflight>>

\* line 438-450: the message to the admin is sent or fails, the user is
\* answered and the session is deleted
MethodFinish(h) ==
    \E delivered \in BOOLEAN :
        LET run == suspended.text[h]
        IN  /\ run.pc = "notify"
            /\ userSessions' =
                   SessionAfterCommit(userSessions, run.user.id,
                                      TryCatch(SendMessage(delivered)) = "done")
            /\ suspended' = [suspended EXCEPT !.text[h] = NoRun]
            /\ UNCHANGED <<persisted, mem, now, last, inflight>>

\* Two method messages of one session whose handlers overlap.  The session
\* is opened and its amount given before the method messages are sent.
RaceTexts == { <<"c","a","n","c","e","l">>, <<"2","0","0">> }

NextMethodRace ==
    \/ StartWithdraw
    \/ \E id \in UserIds : ConfirmPurchase(id, "Basic")
    \/ (NoRunUnderWay /\ \E id \in UserIds : WithdrawCommand(id))
    \/ (NoRunUnderWay /\ \E id \in UserIds, t \in RaceTexts : TextMessage(id, t))
    \/ \E h \in Slots, id \in UserIds : MethodBegin(h, id, <<"m","y"," ","C","B","E">>)
    \/ \E h \in Slots : MethodResolve(h)
    \/ \E h \in Slots : MethodFinish(h)

SpecMethodRace == Init /\ [][NextMethodRace]_vars

\* the run in slot h creates a request in this step
Creates(h) ==
    /\ suspended.text[h].pc = "read"
    /\ suspended'.text[h].pc = "notify"
    /\ Len(persisted'.withdraws) = Len(persisted.withdraws) + 1

\* C22: one session commits at most one withdrawal.  When a second
\* recognised method message arrives while the handler of the first is
\* still under way (its session is not deleted yet), the handler of the
\* second creates no request once the first has created one.
C22_OneRequestPerSession ==
    [][\A h \in Slots, g \in Slots :
           (/\ Creates(h)
            /\ g # h
            /\ suspended.text[g].pc = "notify"
            /\ suspended.text[g].user.id = suspended.text[h].user.id)
               => FALSE]_vars

\* line 139-157: confirmPurchase(userId, packageType) of a user who has a
\* referrer: db.read(), the package is set and the commission credited in
\* db.data, and the function waits for the message to the referrer
ConfirmBegin(userId, packageType) ==
    LET data == DbRead(persisted)
        i == findUserById(data, userId)
        data1 == [data EXCEPT !.users[i].package = packageType]
        r == Referrer(data1, data1.users[i])
        data2 == [data1 EXCEPT !.users[r].balance = Credit(@, packageType)]
    IN  /\ suspended.confirm.pc = "idle"
        /\ i # 0
        /\ packageType \in PackageNames
        /\ r # 0
        /\ \A k \in 1..Len(data2.users) : data2.users[k].balance <= MaxBalance
        /\ mem' = data2
        /\ suspended' =
               [Detach(suspended) EXCEPT
                   !.confirm = [pc |-> "notify", userId |-> userId,
                                packageType |-> packageType,
                                user |-> data2.users[i], ref |-> data2.users[r]]]
        /\ UNCHANGED <<persisted, userSessions, now, last, inflight>>

\* line 154-171: the message is sent or fails (the error is ignored), the
\* pending entries are filtered out of db.data as it is now, saveDB() runs
\* and the function returns ok with the user object it holds
ConfirmEnd ==
    \E delivered \in BOOLEAN :
        LET c == suspended.confirm
            data3 == [mem EXCEPT !.pendingPurchases =
                                     RemovePending(@, c.userId, c.packageType)]
        IN  /\ c.pc = "notify"
            /\ TryCatch(SendMessage(delivered)) = "done"
            /\ mem' = data3
            /\ persisted' = SaveDB(data3)
            /\ last' = Result("confirmPurchase", c.userId, TRUE, "", c.user)
            /\ suspended' = [suspended EXCEPT !.confirm = NoConfirm]
            /\ UNCHANGED <<userSessions, now, inflight>>

\* A confirmPurchase that waits for its notification while registrations,
\* /balance, /withdraw and the backup run.
NextConfirmRace ==
    \/ StartWithdraw
    \/ \E id \in UserIds : ConfirmBegin(id, "Basic")
    \/ ConfirmEnd
    \/ \E id \in UserIds : BalanceRead(id)
    \/ \E id \in UserIds : BalanceReply(id)
    \/ \E id \in UserIds : WithdrawCommand(id)
    \/ Backup

SpecConfirmRace == Init /\ [][NextConfirmRace]_vars

\* C23: the effects of confirmPurchase survive interleaving.  Whatever
\* handler reloaded db.data from the file while confirmPurchase waited for
\* the message to the referrer, when confirmPurchase returns ok the file
\* holds the purchaser's new package and the referrer's balance with the
\* commission credited.
C23_ConfirmSurvives ==
    [][(suspended.confirm.pc = "notify" /\ suspended'.confirm.pc = "idle") =>
           LET c == suspended.confirm
           IN  /\ UserAt(persisted', findUserById(persisted', c.userId)).package
                      = c.packageType
               /\ BalanceOf(persisted', c.ref.id) = c.ref.balance]_vars
====
